---------------------------- MODULE Spec2Model ----------------------------
(***************************************************************************)
(* Model of the three teaching scripts Tarea1/Ejemplo_1.py, Ejemplo_2.py   *)
(* and Ejemplo_3.py: seeded measurement simulation, error metrics,         *)
(* chart writing, console summary and the optional tkinter window.         *)
(*                                                                         *)
(* Numbers.  Python floats are modelled in fixed point:                    *)
(*   angles in hundredths of a degree, lengths in centimetres,             *)
(*   speed in m/s, gravity in cm/s^2, ratios in units of 1/RelScale.       *)
(* A float that can be infinite (a relative error, a mean of them) is a    *)
(* record [tag, v] with tag "fin", "inf" or "ZeroDivisionError" (the       *)
(* exception Python's / raises on a zero divisor).                         *)
(***************************************************************************)
EXTENDS Integers, Sequences, FiniteSets, TLC

\* ------------------------------------------------------------------ bounds
\* Longest input list handed to compute_errors in a direct call.
MaxLen == 2
\* Direct-call input values range over -MaxVal..MaxVal.
MaxVal == 1
\* Longest argument list given on the command line.
MaxArgs == 1
\* Number of invocations of a script that one behaviour follows.
MaxRuns == 2
\* Resolution of a ratio: a quotient is kept in units of 1/RelScale.
RelScale == 10000

\* ------------------------------------------------------- builtin helpers
Abs(x) == IF x < 0 THEN -x ELSE x

Min(a, b) == IF a <= b THEN a ELSE b

RECURSIVE Max(_)
Max(xs) ==
  IF Len(xs) = 1 THEN xs[1]
  ELSE LET m == Max(Tail(xs)) IN IF xs[1] >= m THEN xs[1] ELSE m

RECURSIVE Sum(_)
Sum(xs) == IF xs = <<>> THEN 0 ELSE xs[1] + Sum(Tail(xs))

\* '--gui' in argv
In(x, xs) == \E i \in 1..Len(xs) : xs[i] = x

\* zip(xs, ys): pairs up to the end of the shorter list, no error.
zip(xs, ys) == [i \in 1..Min(Len(xs), Len(ys)) |-> <<xs[i], ys[i]>>]

\* ------------------------------------------------------------------ floats
Fin(x) == [tag |-> "fin", v |-> x]

\* float('inf')
inf == [tag |-> "inf", v |-> 0]

ZeroDivisionError == [tag |-> "ZeroDivisionError", v |-> 0]

\* a / b on non-negative floats: raises on a zero divisor.
truediv(a, b) ==
  IF b = 0 THEN ZeroDivisionError ELSE Fin((a * RelScale) \div b)

\* x * 100 (the percentage shown in the tables); inf * 100 is inf.
Times100(x) == IF x.tag = "inf" THEN inf ELSE Fin(x.v * 100)

\* x < y on floats: inf is above every finite value and not below itself.
FloatLess(x, y) ==
  IF x.tag = "inf" THEN FALSE
  ELSE IF y.tag = "inf" THEN TRUE
  ELSE x.v < y.v

\* A mean that leaves the infinite values out.
mean_dropping_inf(data) ==
  LET finite == SelectSeq(data, LAMBDA x : x.tag = "fin")
  IN  IF finite = <<>> THEN Fin(0)
      ELSE Fin(Sum([i \in 1..Len(finite) |-> finite[i].v]) \div Len(finite))

\* statistics.mean(data) for non-empty data: the exact sum divided by the
\* count; a sum with an infinite term is infinite.
mean(data) ==
  IF \E i \in 1..Len(data) : data[i].tag = "inf" THEN inf
  ELSE Fin(Sum([i \in 1..Len(data) |-> data[i].v]) \div Len(data))

\* ------------------------------------------------- the random generator
\* The process-wide generator of the random module: an integer state
\* advanced by random(), and the spare normal deviate gauss() keeps
\* (gauss_next).  gauss() produces deviates in pairs (Box-Muller): the
\* cosine one is returned, the sine one is kept for the next call.
\* Deviates are in hundredths: CosT, SinT are 10*cos, 10*sin of the eight
\* phases and G2RadT is 10*sqrt(-2 ln(1-u)) of the eight radii.
CosT == <<10, 7, 0, -7, -10, -7, 0, 7>>

SinT == <<0, 7, 10, 7, 0, -7, -10, -7>>

G2RadT == <<0, 5, 8, 10, 12, 14, 17, 20>>

Modulus == Len(G2RadT)

None == <<>>

\* random(): the next state, which is also the value drawn.
random_next(s) == (5 * s + 3) % Modulus

\* A seeding that keeps the spare deviate.
random_seed_keeps_spare(rng, a) == [rng EXCEPT !.state = a % Modulus]

\* random.seed(a): the state is a function of a alone, the spare is dropped.
random_seed(rng, a) == [state |-> a % Modulus, gauss_next |-> None]

\* random.gauss(mu, sigma): the generator afterwards and the value.
random_gauss(rng, mu, sigma) ==
  IF rng.gauss_next # None
  THEN [rng   |-> [rng EXCEPT !.gauss_next = None],
        value |-> mu + (rng.gauss_next[1] * sigma) \div 100]
  ELSE LET u1 == random_next(rng.state)
           u2 == random_next(u1)
           z  == CosT[u1 + 1] * G2RadT[u2 + 1]
           nx == SinT[u1 + 1] * G2RadT[u2 + 1]
       IN  [rng   |-> [state |-> u2, gauss_next |-> <<nx>>],
            value |-> mu + (z * sigma) \div 100]

\* The states the generator can be in when a script starts: any state with
\* no spare deviate, or what a pair-producing gauss() call leaves behind.
RngStates ==
  LET bare == { [state |-> s, gauss_next |-> None] : s \in 0..(Modulus - 1) }
  IN  bare \cup { random_gauss(r, 0, 1).rng : r \in bare }

\* ------------------------------------------------------ derived quantities
\* math.sin of an angle of 0..180 degrees (hundredths), times 10^4
\* (Bhaskara's rational approximation stands for the library sine).
sin_pos(x) ==
  LET p == x * (18000 - x) IN (4 * p) \div ((405000000 - p) \div 10000)

math_sin(x) == IF x < 0 THEN -sin_pos(-x) ELSE sin_pos(x)

math_cos(x) == math_sin(9000 - x)

\* range_projectile(v, angle_deg, g): v^2 sin(2 theta) / g, in centimetres.
range_projectile(v, angle_deg, g) == (v * v * math_sin(2 * angle_deg)) \div g

\* lateral_displacement(angle_deg, distance_m): distance * tan(angle), cm.
lateral_displacement(angle_deg, distance_m) ==
  (distance_m * 100 * math_sin(angle_deg)) \div math_cos(angle_deg)

\* ---------------------------------------------------------- compute_errors
\* An error pair whose absolute error keeps the sign of t - a.
errors_of_signed(t, a) ==
  LET ea == t - a
  IN  [ea |-> ea, er |-> IF t # 0 THEN truediv(Abs(ea), Abs(t)) ELSE inf]

\* An error pair that divides whatever the true value is.
errors_of_unguarded(t, a) ==
  LET ea == Abs(t - a)
  IN  [ea |-> ea, er |-> truediv(ea, Abs(t))]

\* The body of compute_errors' loop for one pair (t, a).
errors_of(t, a) ==
  LET ea == Abs(t - a)
  IN  [ea |-> ea, er |-> IF t # 0 THEN truediv(ea, Abs(t)) ELSE inf]

\* The loop of compute_errors over the zipped pairs, appending to both lists.
\* An exception raised by the body ends the call with no result.
RECURSIVE compute_errors_loop(_, _, _)
compute_errors_loop(pairs, abs_errs_, rel_errs_) ==
  IF pairs = <<>>
  THEN [status |-> "returned", abs_errs |-> abs_errs_, rel_errs |-> rel_errs_]
  ELSE LET e == errors_of(Head(pairs)[1], Head(pairs)[2])
       IN  IF e.er.tag = "ZeroDivisionError"
           THEN [status |-> "ZeroDivisionError",
                 abs_errs |-> <<>>, rel_errs |-> <<>>]
           ELSE compute_errors_loop(Tail(pairs), Append(abs_errs_, e.ea),
                                    Append(rel_errs_, e.er))

\* compute_errors(true_vals, approx_vals); the three scripts hold the same
\* text of it.
compute_errors(true_vals, approx_vals) ==
  compute_errors_loop(zip(true_vals, approx_vals), <<>>, <<>>)

\* -------------------------------------------------------- program constants
\* Ejemplo_1.main
seed_ej1 == 42

true_angles_ej1 ==
  <<4500, 4600, 4450, 4520, 4580, 4490, 4640, 4510, 4550, 4470, 4620, 4530>>

sigma_ej1 == 120

bias_ej1 == 30

\* Ejemplo_2.main
seed_ej2 == 1

v0 == 200

true_angle == 3000

sigma_deg == 50

n_shots == 10

\* default of range_projectile's parameter g
g_default == 981

\* Ejemplo_3.main
seed_ej3 == 123

distance == 250

true_angles_ej3 ==
  <<150, 200, 180, 220, 170, 250, 190, 210, 230, 160, 240, 185>>

bias_ej3 == -20

sigma_ej3 == 60

\* The seed each script passes to random.seed.
SeedOf(s) == IF s = 1 THEN seed_ej1 ELSE IF s = 2 THEN seed_ej2 ELSE seed_ej3

\* The number of observations each script generates.
NObs(s) ==
  IF s = 1 THEN Len(true_angles_ej1)
  ELSE IF s = 2 THEN n_shots
  ELSE Len(true_angles_ej3)

\* --------------------------------------------- the inline loops of 2 and 3
\* A shot whose relative error divides by the measured range.
shot_of_wrong_divisor(i, v, angle, measured_angle) ==
  LET true_r == range_projectile(v, angle, g_default)
      meas_r == range_projectile(v, measured_angle, g_default)
      ea == Abs(true_r - meas_r)
      er == IF true_r # 0 THEN truediv(ea, Abs(meas_r)) ELSE inf
  IN  [shot |-> i + 1, true_angle |-> angle,
       measured_angle |-> measured_angle, true_range |-> true_r,
       measured_range |-> meas_r, abs_err |-> ea, rel_err |-> er]

\* Ejemplo_2.main, the loop body after the draw: the dictionary appended to
\* shots for loop index i (from 0).
shot_of(i, v, angle, measured_angle) ==
  LET true_r == range_projectile(v, angle, g_default)
      meas_r == range_projectile(v, measured_angle, g_default)
      ea == Abs(true_r - meas_r)
      er == IF true_r # 0 THEN truediv(ea, Abs(true_r)) ELSE inf
  IN  [shot |-> i + 1, true_angle |-> angle,
       measured_angle |-> measured_angle, true_range |-> true_r,
       measured_range |-> meas_r, abs_err |-> ea, rel_err |-> er]

\* A record numbered from 0.
record_of_zero_based(i, t, measured, distance_m) ==
  LET ea == Abs(t - measured)
      er == IF t # 0 THEN truediv(ea, Abs(t)) ELSE inf
  IN  [shot |-> i - 1, true_angle |-> t, measured_angle |-> measured,
       abs_err |-> ea, rel_err |-> er,
       lat_true |-> lateral_displacement(t, distance_m),
       lat_meas |-> lateral_displacement(measured, distance_m)]

\* Ejemplo_3.main, the loop body after the draw: the dictionary appended to
\* records for enumerate index i (from 1) and true angle t.
record_of(i, t, measured, distance_m) ==
  LET ea == Abs(t - measured)
      er == IF t # 0 THEN truediv(ea, Abs(t)) ELSE inf
  IN  [shot |-> i, true_angle |-> t, measured_angle |-> measured,
       abs_err |-> ea, rel_err |-> er,
       lat_true |-> lateral_displacement(t, distance_m),
       lat_meas |-> lateral_displacement(measured, distance_m)]

\* [d[key] for d in data]
Column(data, key) == [i \in 1..Len(data) |-> data[i][key]]

\* ------------------------------------------------------------ console lines
Floats(xs) == [i \in 1..Len(xs) |-> Fin(xs[i])]

\* The summary block: count, mean and maximum absolute error, mean relative
\* error as a percentage.  statistics.mean raises on an empty list.
summary_line(count, abs_errs_, rel_errs_) ==
  [kind |-> "summary", shot |-> count,
   cols |-> <<mean(Floats(abs_errs_)).v, Max(abs_errs_)>>,
   rel  |-> Times100(mean(rel_errs_))]

\* One row of the table.
table_row(i, cols, er) ==
  [kind |-> "row", shot |-> i, cols |-> cols, rel |-> Times100(er)]

\* The message run_gui prints when tkinter could not be imported.
diagnostic_line == [kind |-> "diag", shot |-> 0, cols |-> <<>>, rel |-> Fin(0)]

\* print_summary(true_vals, approx_vals, abs_errs, rel_errs) of Ejemplo_1:
\* what it prints, or the exception it ends with.
print_summary(true_vals, approx_vals, abs_errs_, rel_errs_) ==
  IF abs_errs_ = <<>> \/ rel_errs_ = <<>>
  THEN [status |-> "StatisticsError", out |-> <<>>]
  ELSE LET n == Min(Min(Len(true_vals), Len(approx_vals)),
                    Min(Len(abs_errs_), Len(rel_errs_)))
       IN  [status |-> "returned",
            out |-> <<summary_line(Len(true_vals), abs_errs_, rel_errs_)>>
                    \o [i \in 1..n |->
                          table_row(i, <<true_vals[i], approx_vals[i],
                                         abs_errs_[i]>>, rel_errs_[i])]]

\* ------------------------------------------------------------ chart files
\* save_plots of Ejemplo_1: the three files in the order they are written,
\* each with the series it draws.
save_plots_ej1(true_vals, approx_vals, abs_errs_) ==
  << [file |-> "scatter_true_vs_approx.png", x |-> true_vals, y |-> approx_vals],
     [file |-> "error_by_shot.png",
      x |-> [i \in 1..Len(abs_errs_) |-> i], y |-> abs_errs_],
     [file |-> "hist_errors.png", x |-> abs_errs_, y |-> <<>>] >>

\* save_plots of Ejemplo_2.
save_plots_ej2(data) ==
  LET true_ranges == Column(data, "true_range")
      meas_ranges == Column(data, "measured_range")
      abs_errs_   == Column(data, "abs_err")
  IN  << [file |-> "scatter_range.png", x |-> true_ranges, y |-> meas_ranges],
         [file |-> "abs_error_by_shot.png",
          x |-> [i \in 1..Len(abs_errs_) |-> i], y |-> abs_errs_],
         [file |-> "hist_abs_errors.png", x |-> abs_errs_, y |-> <<>>] >>

\* save_plots of Ejemplo_3.
save_plots_ej3(records_) ==
  LET abs_errs_ == Column(records_, "abs_err")
  IN  << [file |-> "angle_true_vs_meas.png",
          x |-> Column(records_, "true_angle"),
          y |-> Column(records_, "measured_angle")],
         [file |-> "abs_error_by_shot.png",
          x |-> [i \in 1..Len(abs_errs_) |-> i], y |-> abs_errs_],
         [file |-> "impacts_plane.png",
          x |-> Column(records_, "lat_true"),
          y |-> Column(records_, "lat_meas")] >>

\* The summary and table that main of Ejemplo_2 prints.
lines_ej2(shots_) ==
  <<summary_line(n_shots, Column(shots_, "abs_err"), Column(shots_, "rel_err"))>>
  \o [i \in 1..Len(shots_) |->
        table_row(shots_[i].shot,
                  <<shots_[i].true_angle, shots_[i].measured_angle,
                    shots_[i].true_range, shots_[i].measured_range,
                    shots_[i].abs_err>>,
                  shots_[i].rel_err)]

\* The summary and table that main of Ejemplo_3 prints.
lines_ej3(records_) ==
  <<summary_line(Len(records_), Column(records_, "abs_err"),
                 Column(records_, "rel_err"))>>
  \o [i \in 1..Len(records_) |->
        table_row(records_[i].shot,
                  <<records_[i].true_angle, records_[i].measured_angle,
                    records_[i].abs_err, records_[i].lat_true,
                    records_[i].lat_meas>>,
                  records_[i].rel_err)]

\* ------------------------------------------------------------------- state
VARIABLES
  scenario,       \* which script runs: 1, 2 or 3
  argv,           \* sys.argv[1:]
  TK_AVAILABLE,   \* whether the import of tkinter succeeded
  pc,             \* position in main
  rng,            \* the process-wide generator of the random module
  seed_calls,     \* calls of random.seed in this run
  gauss_calls,    \* calls of random.gauss in this run
  approx_angles,  \* Ejemplo_1: the simulated angles
  shots,          \* Ejemplo_2: the list of shot dictionaries
  records,        \* Ejemplo_3: the list of record dictionaries
  abs_errs,       \* the absolute errors main holds
  rel_errs,       \* the relative errors main holds
  charts,         \* the chart files written, in order
  stdout,         \* the lines printed, in order
  window,         \* the tkinter window: "none", "open" or "closed"
  entry_rng,      \* the generator as this run found it
  history,        \* the measured values of the finished earlier runs
  f_true,         \* direct call: true_vals
  f_approx,       \* direct call: approx_vals
  f_pc,           \* direct call: position
  f_result,       \* direct call: what compute_errors returned
  f_shots,        \* direct call: the shots Ejemplo_2's loop builds
  f_records,      \* direct call: the records Ejemplo_3's loop builds
  f_printed       \* direct call: what print_summary printed

mainVars ==
  <<scenario, argv, TK_AVAILABLE, pc, rng, seed_calls, gauss_calls,
    approx_angles, shots, records, abs_errs, rel_errs, charts, stdout,
    window, entry_rng, history>>

fnVars == <<f_true, f_approx, f_pc, f_result, f_shots, f_records, f_printed>>

vars == <<mainVars, fnVars>>

\* The argument lists a script may be started with.
ArgLists == UNION { [1..n -> {"--gui", "--verbose"}] : n \in 0..MaxArgs }

\* The lists a direct call may pass.
InputLists == UNION { [1..n -> (-MaxVal)..MaxVal] : n \in 0..MaxLen }

\* The measured values of the run, in order.
Measured ==
  IF scenario = 1 THEN approx_angles
  ELSE IF scenario = 2 THEN Column(shots, "measured_angle")
  ELSE Column(records, "measured_angle")

\* The chart files the run's save_plots writes.
Plots ==
  IF scenario = 1 THEN save_plots_ej1(true_angles_ej1, approx_angles, abs_errs)
  ELSE IF scenario = 2 THEN save_plots_ej2(shots)
  ELSE save_plots_ej3(records)

\* The lines the run's printing code emits.
Lines ==
  IF scenario = 1
  THEN print_summary(true_angles_ej1, approx_angles, abs_errs, rel_errs).out
  ELSE IF scenario = 2 THEN lines_ej2(shots)
  ELSE lines_ej3(records)

\* No direct call in progress.
FnIdle ==
  /\ f_true = <<>> /\ f_approx = <<>> /\ f_pc = "idle"
  /\ f_result = [status |-> "none", abs_errs |-> <<>>, rel_errs |-> <<>>]
  /\ f_shots = <<>> /\ f_records = <<>> /\ f_printed = <<>>

\* main(argv) entered: nothing computed, written or printed yet.
Entered ==
  /\ pc = "seed" /\ seed_calls = 0 /\ gauss_calls = 0
  /\ approx_angles = <<>> /\ shots = <<>> /\ records = <<>>
  /\ abs_errs = <<>> /\ rel_errs = <<>>
  /\ charts = <<>> /\ stdout = <<>> /\ window = "none"

Init ==
  /\ scenario \in 1..3
  /\ argv \in ArgLists
  /\ TK_AVAILABLE \in BOOLEAN
  /\ rng \in RngStates
  /\ entry_rng = rng
  /\ history = <<>>
  /\ Entered
  /\ FnIdle

\* ----------------------------------------------------------------- main
\* random.seed(<literal>), the first statement of every main.
Seed ==
  /\ pc = "seed"
  /\ rng' = random_seed(rng, SeedOf(scenario))
  /\ seed_calls' = seed_calls + 1
  /\ pc' = "simulate"
  /\ UNCHANGED <<scenario, argv, TK_AVAILABLE, gauss_calls, approx_angles,
                 shots, records, abs_errs, rel_errs, charts, stdout, window,
                 entry_rng, history, fnVars>>

\* Ejemplo_1: one element of the comprehension
\*   [t + bias + random.gauss(0, sigma) for t in true_angles].
Simulate1 ==
  /\ scenario = 1 /\ pc = "simulate"
  /\ Len(approx_angles) < Len(true_angles_ej1)
  /\ LET i == Len(approx_angles) + 1
         d == random_gauss(rng, 0, sigma_ej1)
     IN  /\ approx_angles' =
              Append(approx_angles, true_angles_ej1[i] + bias_ej1 + d.value)
         /\ rng' = d.rng
         /\ gauss_calls' = gauss_calls + 1
         /\ pc' = IF i = Len(true_angles_ej1) THEN "compute_errors"
                  ELSE "simulate"
  /\ UNCHANGED <<scenario, argv, TK_AVAILABLE, seed_calls, shots, records,
                 abs_errs, rel_errs, charts, stdout, window, entry_rng,
                 history, fnVars>>

\* Ejemplo_1: abs_errs, rel_errs = compute_errors(true_angles, approx_angles).
ComputeErrors1 ==
  /\ scenario = 1 /\ pc = "compute_errors"
  /\ LET r == compute_errors(true_angles_ej1, approx_angles)
     IN  IF r.status = "returned"
         THEN /\ abs_errs' = r.abs_errs
              /\ rel_errs' = r.rel_errs
              /\ pc' = "save_plots"
         ELSE /\ pc' = "raised"
              /\ UNCHANGED <<abs_errs, rel_errs>>
  /\ UNCHANGED <<scenario, argv, TK_AVAILABLE, rng, seed_calls, gauss_calls,
                 approx_angles, shots, records, charts, stdout, window,
                 entry_rng, history, fnVars>>

\* A loop body that draws a second deviate for the shot.
Shot2_two_draws ==
  /\ scenario = 2 /\ pc = "simulate"
  /\ Len(shots) < n_shots
  /\ LET i  == Len(shots)
         d  == random_gauss(rng, 0, sigma_deg)
         d2 == random_gauss(d.rng, 0, sigma_deg)
         s  == shot_of(i, v0, true_angle, true_angle + d.value)
     IN  /\ rng' = d2.rng
         /\ gauss_calls' = gauss_calls + 2
         /\ shots' = Append(shots, s)
         /\ pc' = IF i + 1 = n_shots THEN "save_plots" ELSE "simulate"
  /\ UNCHANGED <<scenario, argv, TK_AVAILABLE, seed_calls, approx_angles,
                 records, abs_errs, rel_errs, charts, stdout, window,
                 entry_rng, history, fnVars>>

\* Ejemplo_2: one iteration of `for i in range(n_shots)`.
Shot2 ==
  /\ scenario = 2 /\ pc = "simulate"
  /\ Len(shots) < n_shots
  /\ LET i == Len(shots)
         d == random_gauss(rng, 0, sigma_deg)
         s == shot_of(i, v0, true_angle, true_angle + d.value)
     IN  /\ rng' = d.rng
         /\ gauss_calls' = gauss_calls + 1
         /\ IF s.rel_err.tag = "ZeroDivisionError"
            THEN /\ pc' = "raised"
                 /\ UNCHANGED shots
            ELSE /\ shots' = Append(shots, s)
                 /\ pc' = IF i + 1 = n_shots THEN "save_plots" ELSE "simulate"
  /\ UNCHANGED <<scenario, argv, TK_AVAILABLE, seed_calls, approx_angles,
                 records, abs_errs, rel_errs, charts, stdout, window,
                 entry_rng, history, fnVars>>

\* Ejemplo_3: one iteration of `for i, t in enumerate(true_angles, start=1)`.
Record3 ==
  /\ scenario = 3 /\ pc = "simulate"
  /\ Len(records) < Len(true_angles_ej3)
  /\ LET i == Len(records) + 1
         t == true_angles_ej3[i]
         d == random_gauss(rng, 0, sigma_ej3)
         r == record_of(i, t, t + bias_ej3 + d.value, distance)
     IN  /\ rng' = d.rng
         /\ gauss_calls' = gauss_calls + 1
         /\ IF r.rel_err.tag = "ZeroDivisionError"
            THEN /\ pc' = "raised"
                 /\ UNCHANGED records
            ELSE /\ records' = Append(records, r)
                 /\ pc' = IF i = Len(true_angles_ej3) THEN "save_plots"
                          ELSE "simulate"
  /\ UNCHANGED <<scenario, argv, TK_AVAILABLE, seed_calls, approx_angles,
                 shots, abs_errs, rel_errs, charts, stdout, window,
                 entry_rng, history, fnVars>>

\* save_plots: the next of its three savefig calls.
SavePlot ==
  /\ pc = "save_plots"
  /\ Len(charts) < Len(Plots)
  /\ charts' = Append(charts, Plots[Len(charts) + 1])
  /\ pc' = IF Len(charts) + 1 = Len(Plots) THEN "print_summary"
           ELSE "save_plots"
  /\ UNCHANGED <<scenario, argv, TK_AVAILABLE, rng, seed_calls, gauss_calls,
                 approx_angles, shots, records, abs_errs, rel_errs, stdout,
                 window, entry_rng, history, fnVars>>

\* The summary block.  Ejemplo_2 and Ejemplo_3 first collect abs_errs and
\* rel_errs from their dictionaries; Ejemplo_1 is inside print_summary.
PrintSummary ==
  /\ pc = "print_summary"
  /\ IF scenario = 1 THEN UNCHANGED <<abs_errs, rel_errs>>
     ELSE IF scenario = 2
     THEN /\ abs_errs' = Column(shots, "abs_err")
          /\ rel_errs' = Column(shots, "rel_err")
     ELSE /\ abs_errs' = Column(records, "abs_err")
          /\ rel_errs' = Column(records, "rel_err")
  /\ stdout' = Append(stdout, Lines[1])
  /\ pc' = "table"
  /\ UNCHANGED <<scenario, argv, TK_AVAILABLE, rng, seed_calls, gauss_calls,
                 approx_angles, shots, records, charts, window, entry_rng,
                 history, fnVars>>

\* The next row of the table.
PrintRow ==
  /\ pc = "table"
  /\ Len(stdout) < Len(Lines)
  /\ stdout' = Append(stdout, Lines[Len(stdout) + 1])
  /\ pc' = IF Len(stdout) + 1 = Len(Lines) THEN "gui_check" ELSE "table"
  /\ UNCHANGED <<scenario, argv, TK_AVAILABLE, rng, seed_calls, gauss_calls,
                 approx_angles, shots, records, abs_errs, rel_errs, charts,
                 window, entry_rng, history, fnVars>>

\* A check that opens the window whatever the arguments are.
GuiCheck_always ==
  /\ pc = "gui_check"
  /\ pc' = "run_gui"
  /\ UNCHANGED <<scenario, argv, TK_AVAILABLE, rng, seed_calls, gauss_calls,
                 approx_angles, shots, records, abs_errs, rel_errs, charts,
                 stdout, window, entry_rng, history, fnVars>>

\* if '--gui' in argv: run_gui(...); otherwise main returns.
GuiCheck ==
  /\ pc = "gui_check"
  /\ pc' = IF In("--gui", argv) THEN "run_gui" ELSE "done"
  /\ UNCHANGED <<scenario, argv, TK_AVAILABLE, rng, seed_calls, gauss_calls,
                 approx_angles, shots, records, abs_errs, rel_errs, charts,
                 stdout, window, entry_rng, history, fnVars>>

\* A run_gui that builds the window without looking at TK_AVAILABLE.
RunGui_unchecked ==
  /\ pc = "run_gui"
  /\ window' = "open"
  /\ pc' = "mainloop"
  /\ UNCHANGED <<scenario, argv, TK_AVAILABLE, rng, seed_calls, gauss_calls,
                 approx_angles, shots, records, abs_errs, rel_errs, charts,
                 stdout, entry_rng, history, fnVars>>

\* run_gui up to root.mainloop(): without tkinter it prints the message and
\* returns; with it the window is built and the event loop entered.
RunGui ==
  /\ pc = "run_gui"
  /\ IF ~TK_AVAILABLE
     THEN /\ stdout' = Append(stdout, diagnostic_line)
          /\ pc' = "done"
          /\ UNCHANGED window
     ELSE /\ window' = "open"
          /\ pc' = "mainloop"
          /\ UNCHANGED stdout
  /\ UNCHANGED <<scenario, argv, TK_AVAILABLE, rng, seed_calls, gauss_calls,
                 approx_angles, shots, records, abs_errs, rel_errs, charts,
                 entry_rng, history, fnVars>>

\* root.mainloop() returns when the user closes the window; main returns.
CloseWindow ==
  /\ pc = "mainloop"
  /\ window' = "closed"
  /\ pc' = "done"
  /\ UNCHANGED <<scenario, argv, TK_AVAILABLE, rng, seed_calls, gauss_calls,
                 approx_angles, shots, records, abs_errs, rel_errs, charts,
                 stdout, entry_rng, history, fnVars>>

\* The same script is started again, in the same environment: a new process,
\* with its generator in any state and any argument list.
Restart ==
  /\ pc = "done"
  /\ Len(history) + 1 < MaxRuns
  /\ history' = Append(history, Measured)
  /\ argv' \in ArgLists
  /\ rng' \in RngStates
  /\ entry_rng' = rng'
  /\ pc' = "seed" /\ seed_calls' = 0 /\ gauss_calls' = 0
  /\ approx_angles' = <<>> /\ shots' = <<>> /\ records' = <<>>
  /\ abs_errs' = <<>> /\ rel_errs' = <<>>
  /\ charts' = <<>> /\ stdout' = <<>> /\ window' = "none"
  /\ UNCHANGED <<scenario, TK_AVAILABLE, fnVars>>

Next ==
  \/ Seed
  \/ Simulate1
  \/ ComputeErrors1
  \/ Shot2
  \/ Record3
  \/ SavePlot
  \/ PrintSummary
  \/ PrintRow
  \/ GuiCheck
  \/ RunGui
  \/ CloseWindow
  \/ Restart

Spec == Init /\ [][Next]_vars

\* ----------------------------------------------------------- direct calls
\* The functions called directly, as a test or an importing module would,
\* with any two short lists.
InitFn ==
  /\ f_true \in InputLists
  /\ f_approx \in InputLists
  /\ f_pc = "call"
  /\ f_result = [status |-> "none", abs_errs |-> <<>>, rel_errs |-> <<>>]
  /\ f_shots = <<>> /\ f_records = <<>> /\ f_printed = <<>>
  /\ scenario = 1 /\ argv = <<>> /\ TK_AVAILABLE = FALSE
  /\ rng = [state |-> 0, gauss_next |-> None]
  /\ entry_rng = rng
  /\ history = <<>>
  /\ Entered

\* compute_errors(f_true, f_approx)
CallComputeErrors ==
  /\ f_pc = "call"
  /\ f_result' = compute_errors(f_true, f_approx)
  /\ f_pc' = IF f_result'.status = "returned" THEN "inline" ELSE "raised"
  /\ UNCHANGED <<f_true, f_approx, f_shots, f_records, f_printed, mainVars>>

\* The loop bodies of Ejemplo_2 (angles to ranges) and Ejemplo_3 (angles)
\* applied to the same pairs of true and measured values.
CallInline ==
  /\ f_pc = "inline"
  /\ LET n == Min(Len(f_true), Len(f_approx))
     IN  /\ f_shots' = [i \in 1..n |->
                          shot_of(i - 1, v0, f_true[i], f_approx[i])]
         /\ f_records' = [i \in 1..n |->
                            record_of(i, f_true[i], f_approx[i], distance)]
  /\ f_pc' = "print_summary"
  /\ UNCHANGED <<f_true, f_approx, f_result, f_printed, mainVars>>

\* print_summary(f_true, f_approx, abs_errs, rel_errs) on the result.
CallPrintSummary ==
  /\ f_pc = "print_summary"
  /\ LET r == print_summary(f_true, f_approx,
                            f_result.abs_errs, f_result.rel_errs)
     IN  /\ f_printed' = r.out
         /\ f_pc' = r.status
  /\ UNCHANGED <<f_true, f_approx, f_result, f_shots, f_records, mainVars>>

NextFn ==
  \/ CallComputeErrors
  \/ CallInline
  \/ CallPrintSummary

SpecFn == InitFn /\ [][NextFn]_vars

\* ================================================================ claims
\* The direct call of compute_errors has ended.
Called == f_result.status # "none"

\* The direct call has gone through the inline loop bodies.
Inlined == f_pc \in {"print_summary", "returned", "StatisticsError"}

\* The observation set of the run is complete.
Constructed == pc \in {"compute_errors", "save_plots", "print_summary",
                       "table", "gui_check", "run_gui", "mainloop", "done"}

HasGuiFlag == \E i \in DOMAIN argv : argv[i] = "--gui"

\* The three charts are on disk and the summary and every row are printed.
OutputComplete ==
  /\ Len(charts) = 3
  /\ \A k \in 1..3 : charts[k].file = Plots[k].file
  /\ Len(stdout) >= 1 + NObs(scenario)
  /\ stdout[1].kind = "summary"
  /\ \A j \in 2..(1 + NObs(scenario)) :
       stdout[j].kind = "row" /\ stdout[j].shot = j - 1

\* C1: a call of compute_errors with lists of different lengths does not
\* return normally: the mismatch reaches the caller as an error, never as
\* result lists cut to the shorter input or padded to the longer one.
C1_MismatchIsReported ==
  (Called /\ Len(f_true) # Len(f_approx)) => f_result.status # "returned"

\* C2: the call ends without a division fault, and for every index i the
\* two inputs share: if true_vals[i] # 0 the relative error is the finite
\* quotient absolute_error[i] / |true_vals[i]|; if true_vals[i] = 0 it is
\* the infinity value, which is above every finite relative error returned.
C2_RelativeError ==
  Called =>
    /\ f_result.status = "returned"
    /\ \A i \in 1..Min(Len(f_true), Len(f_approx)) :
         /\ i \in DOMAIN f_result.rel_errs
         /\ i \in DOMAIN f_result.abs_errs
         /\ IF f_true[i] # 0
            THEN /\ f_result.rel_errs[i].tag = "fin"
                 /\ f_result.rel_errs[i] =
                      truediv(f_result.abs_errs[i],
                              IF f_true[i] < 0 THEN -f_true[i] ELSE f_true[i])
            ELSE /\ f_result.rel_errs[i] = inf
                 /\ \A j \in DOMAIN f_result.rel_errs :
                      f_result.rel_errs[j].tag = "fin" =>
                        /\ FloatLess(f_result.rel_errs[j], f_result.rel_errs[i])
                        /\ ~FloatLess(f_result.rel_errs[i], f_result.rel_errs[j])

\* A call has returned an infinite relative error for a zero true value next
\* to a positive finite one for a non-zero true value.
C2_Witness ==
  /\ Called
  /\ \E i, j \in DOMAIN f_result.rel_errs :
       /\ f_true[i] = 0 /\ f_result.rel_errs[i].tag = "inf"
       /\ f_true[j] < 0 /\ f_result.rel_errs[j].tag = "fin"
       /\ f_result.rel_errs[j].v > 0

\* C3: for non-empty lists of equal length compute_errors returns two lists
\* of that length, with absolute_error[i] = |true_vals[i] - approx_vals[i]|,
\* which is never negative; true [45, 46] and approx [46, 44] give [1, 2].
C3_AbsoluteError ==
  /\ (Called /\ f_true # <<>> /\ Len(f_true) = Len(f_approx)) =>
       /\ f_result.status = "returned"
       /\ Len(f_result.abs_errs) = Len(f_true)
       /\ Len(f_result.rel_errs) = Len(f_true)
       /\ \A i \in 1..Len(f_true) :
            /\ f_result.abs_errs[i] >= 0
            /\ \/ f_result.abs_errs[i] = f_true[i] - f_approx[i]
               \/ f_result.abs_errs[i] = f_approx[i] - f_true[i]
  /\ Called =>
       compute_errors(<<4500, 4600>>, <<4600, 4400>>).abs_errs = <<100, 200>>

\* A call with two lists of the greatest length has returned, and one of
\* its pairs has the approximation above the true value.
C3_Witness ==
  /\ Called
  /\ Len(f_true) = MaxLen /\ Len(f_approx) = MaxLen
  /\ \E i \in 1..MaxLen : f_true[i] < f_approx[i] /\ f_result.abs_errs[i] > 0

\* C4: in a run the generator is seeded once and before any draw; while the
\* observations are generated the draws taken equal the observations made;
\* once the set is complete the draws equal the number of observations (12,
\* 10 and 12) and stay so through plotting, printing and the window.
C4_OneDrawPerObservation ==
  /\ seed_calls <= 1
  /\ seed_calls = 0 => gauss_calls = 0
  /\ pc = "simulate" => gauss_calls = Len(Measured)
  /\ Constructed =>
       /\ seed_calls = 1
       /\ gauss_calls = NObs(scenario)
       /\ Len(Measured) = NObs(scenario)
  /\ NObs(1) = 12 /\ NObs(2) = 10 /\ NObs(3) = 12

\* Ejemplo_2 has run to the end through the window, with ten draws taken.
C4_Witness ==
  /\ scenario = 2 /\ pc = "done" /\ window = "closed"
  /\ gauss_calls = 10 /\ Len(shots) = 10

\* C5: every later run of the same script measures, element for element,
\* what the earlier runs measured, whatever state each run found the
\* generator in.
C5_Determinism ==
  \A k \in 1..Len(history) :
    /\ pc = "simulate" =>
         /\ Len(Measured) <= Len(history[k])
         /\ \A i \in 1..Len(Measured) : Measured[i] = history[k][i]
    /\ Constructed => Measured = history[k]

\* A second run that found a spare deviate in the generator has finished.
C5_Witness ==
  /\ history # <<>>
  /\ pc = "done"
  /\ entry_rng.gauss_next # None
  /\ Len(Measured) = NObs(scenario)

\* C6: when print_summary has printed and some observation has a true value
\* of zero, the mean relative error it reports is infinite; so is the one in
\* the summary blocks of Ejemplo_2 and Ejemplo_3 over shots or records that
\* hold an observation with a zero true value.
C6_MeanPropagatesInf ==
  /\ (f_pc = "returned" /\ \E i \in DOMAIN f_result.rel_errs : f_true[i] = 0) =>
       /\ f_printed[1].kind = "summary"
       /\ f_printed[1].rel.tag = "inf"
  /\ (Inlined /\ \E i \in DOMAIN f_shots : f_shots[i].true_range = 0) =>
       lines_ej2(f_shots)[1].rel.tag = "inf"
  /\ (Inlined /\ \E i \in DOMAIN f_records : f_records[i].true_angle = 0) =>
       lines_ej3(f_records)[1].rel.tag = "inf"

\* A summary was printed over one observation with a zero true value and
\* one with a finite relative error.
C6_Witness ==
  /\ f_pc = "returned"
  /\ \E i, j \in DOMAIN f_result.rel_errs :
       /\ f_true[i] = 0
       /\ f_result.rel_errs[j].tag = "fin"
  /\ f_printed[1].rel.tag = "inf"

\* C7: the window step is entered only with --gui among the arguments and
\* only after the three charts are written and the table is fully printed;
\* without the flag no window ever exists, no diagnostic is printed and the
\* run is over with the last table row.
C7_WindowOnlyOnFlag ==
  /\ (pc \in {"run_gui", "mainloop"} \/ window # "none") =>
       HasGuiFlag /\ OutputComplete
  /\ ~HasGuiFlag =>
       /\ window = "none"
       /\ pc \notin {"run_gui", "mainloop"}
       /\ pc = "done" => OutputComplete /\ stdout = Lines

\* The window is open in a run started with --gui.
C7_Witness == pc = "mainloop" /\ window = "open" /\ HasGuiFlag

\* C8: with --gui and no tkinter the run never builds a window and never
\* fails; when it has returned, the three charts are written and the output
\* is that of a run without the flag followed by the diagnostic message.
C8_GuiUnavailable ==
  (HasGuiFlag /\ ~TK_AVAILABLE) =>
    /\ window = "none"
    /\ pc \notin {"mainloop", "raised"}
    /\ pc = "run_gui" => OutputComplete
    /\ pc = "done" =>
         /\ OutputComplete
         /\ stdout = Lines \o <<diagnostic_line>>

\* A run with --gui and no tkinter has returned after the diagnostic.
C8_Witness ==
  /\ HasGuiFlag /\ ~TK_AVAILABLE /\ pc = "done"
  /\ stdout[Len(stdout)].kind = "diag"

\* The observation set is complete, numbered 1..n in the order of the true
\* values, and every chart written and row printed follows that order.
C9_Ordered ==
  Constructed =>
    /\ Len(Measured) = NObs(scenario)
    /\ scenario = 2 =>
         \A i \in 1..Len(shots) :
           shots[i].shot = i /\ shots[i].true_angle = true_angle
    /\ scenario = 3 =>
         \A i \in 1..Len(records) :
           records[i].shot = i /\ records[i].true_angle = true_angles_ej3[i]
    /\ \A k \in 1..Len(charts) :
         /\ k = 1 =>
              /\ charts[k].y =
                   (IF scenario = 2 THEN Column(shots, "measured_range")
                    ELSE Measured)
              /\ charts[k].x =
                   (IF scenario = 1 THEN true_angles_ej1
                    ELSE IF scenario = 2 THEN Column(shots, "true_range")
                    ELSE true_angles_ej3)
         /\ k = 2 =>
              /\ Len(charts[k].y) = NObs(scenario)
              /\ \A i \in 1..NObs(scenario) :
                   /\ charts[k].x[i] = i
                   /\ \/ charts[k].y[i] = charts[1].x[i] - charts[1].y[i]
                      \/ charts[k].y[i] = charts[1].y[i] - charts[1].x[i]
    /\ \A j \in 2..Len(stdout) :
         stdout[j].kind = "row" =>
           /\ stdout[j].shot = j - 1
           /\ stdout[j].cols[2] = Measured[j - 1]
           /\ stdout[j].cols[1] =
                (IF scenario = 1 THEN true_angles_ej1[j - 1]
                 ELSE IF scenario = 2 THEN true_angle
                 ELSE true_angles_ej3[j - 1])

\* C9: each run's observation set has one observation per true value,
\* numbered 1..n in input order, the order plotting and printing use; from
\* the end of its construction to the end of the run it is not modified.
C9_ObservationSet ==
  /\ []C9_Ordered
  /\ [][(Constructed /\ pc' # "seed") =>
          UNCHANGED <<approx_angles, shots, records>>]_vars

\* Ejemplo_3 has plotted and printed its twelve records and returned.
C9_Witness ==
  /\ scenario = 3 /\ pc = "done"
  /\ Len(records) = 12 /\ Len(charts) = 3 /\ Len(stdout) >= 13

\* C10: the absolute and relative errors the loops of Ejemplo_2 (on ranges)
\* and Ejemplo_3 (on angles) compute inline are those compute_errors returns
\* for the same true and measured sequences, infinity included.
C10_InlineMatchesComputeErrors ==
  Inlined =>
    LET ce2 == compute_errors(Column(f_shots, "true_range"),
                              Column(f_shots, "measured_range"))
        ce3 == compute_errors(Column(f_records, "true_angle"),
                              Column(f_records, "measured_angle"))
    IN  /\ ce2.status = "returned"
        /\ ce2.abs_errs = Column(f_shots, "abs_err")
        /\ ce2.rel_errs = Column(f_shots, "rel_err")
        /\ ce3.status = "returned"
        /\ ce3.abs_errs = Column(f_records, "abs_err")
        /\ ce3.rel_errs = Column(f_records, "rel_err")

\* Both loops have met a zero true value (infinite relative error) and a
\* non-zero one with a positive finite relative error.
C10_Witness ==
  /\ Inlined
  /\ \E i, j \in DOMAIN f_shots :
       /\ f_shots[i].true_range = 0 /\ f_shots[i].rel_err = inf
       /\ f_shots[j].rel_err.tag = "fin" /\ f_shots[j].rel_err.v > 0
  /\ \E i, j \in DOMAIN f_records :
       /\ f_records[i].true_angle = 0 /\ f_records[i].rel_err = inf
       /\ f_records[j].rel_err.tag = "fin" /\ f_records[j].rel_err.v > 0

=============================================================================
